---- MODULE Spec2Model ----
(***************************************************************************)
(* Model of uneditbooktext/editortext.py: the Persian text cleaner         *)
(* (clean_persian_text) and the batch driver (process_file, main).         *)
(*                                                                         *)
(* Text is a sequence of Unicode code points.  File names are sequences of *)
(* one-character strings, so that endswith(".txt") and the "edited_"       *)
(* prefix are computed on the name as the code computes them.              *)
(*                                                                         *)
(* Two specifications share the variables:                                 *)
(*   SpecClean  the cleaner applied to a text, then to its own output;     *)
(*   Spec       consecutive runs of main() over the script's directory.    *)
(***************************************************************************)
EXTENDS Integers, Sequences, FiniteSets

VARIABLES
    \* ---- cleaner ----
    text,            \* the text handed to clean_persian_text
    tokens,          \* token texts collected from doc.sentences (lines 22-25)
    cleaned,         \* clean_persian_text(text)
    retokens,        \* token texts of the second pass, over the cleaned text
    recleaned,       \* clean_persian_text(cleaned)
    cphase,          \* "off" | "start" | "cleaned" | "recleaned"
    \* ---- batch driver ----
    srcDir,          \* names of the regular files in the input folder
    outDirExists,    \* the folder "editedbooktext" exists
    outputs,         \* output folder: output name -> "absent" | "partial" | "complete"
    manifest,        \* content of editedbook_list.txt, character by character
                     \* (<<>> while absent or empty)
    processed_files, \* main's list processed_files
    todo,            \* entries of the os.listdir snapshot not yet iterated
    filename,        \* main's loop variable
    pc,              \* position in main
    report,          \* per run: name -> what was printed about that file
    summary,         \* per run: the closing message of main
    written,         \* per run: names whose output was written, in order
    runs             \* number of runs of main() started

cleanVars == <<text, tokens, cleaned, retokens, recleaned, cphase>>
batchVars == <<srcDir, outDirExists, outputs, manifest, processed_files,
               todo, filename, pc, report, summary, written, runs>>
vars == <<text, tokens, cleaned, retokens, recleaned, cphase,
          srcDir, outDirExists, outputs, manifest, processed_files,
          todo, filename, pc, report, summary, written, runs>>

(***************************************************************************)
(* Bounds                                                                  *)
(***************************************************************************)
MaxTextLen == 3
MaxRuns == 2

(***************************************************************************)
(* Characters                                                              *)
(***************************************************************************)
LatinA == 97
PersianBe == 1576
Tatweel == 1600
Hyphen == 45
Underscore == 95
Period == 46
PersianComma == 1548
Colon == 58
PersianQuestion == 1567
Space == 32
Newline == 10

\* The code points the model draws texts from: two letters, the three
\* deleted characters, the three whitelisted marks, one mark that is not
\* whitelisted, and two whitespace characters.
Alphabet ==
    {LatinA, PersianBe, Tatweel, Hyphen, Underscore, Period, PersianComma,
     Colon, PersianQuestion, Space, Newline}

\* re's \w on str patterns: alphanumerics and underscore.  Tatweel (category
\* Lm) is alphanumeric.
IsWord(c) == c \in {LatinA, PersianBe, Tatweel, Underscore}

\* re's \s on str patterns, and str.strip()'s whitespace.
IsSpace(c) == c \in {Space, Newline}

Last(s) == s[Len(s)]

RECURSIVE Concat(_)
Concat(ss) == IF ss = <<>> THEN <<>> ELSE Head(ss) \o Concat(Tail(ss))

(***************************************************************************)
(* File names                                                              *)
(***************************************************************************)
TxtExt == <<".", "t", "x", "t">>
EditedPrefix == <<"e", "d", "i", "t", "e", "d", "_">>
BookA == <<"a">> \o TxtExt
BookB == <<"b">> \o TxtExt
ScriptName == <<"e", "d", "i", "t", "o", "r", "t", "e", "x", "t", ".", "p", "y">>
OutputFolderName ==
    <<"e", "d", "i", "t", "e", "d", "b", "o", "o", "k", "t", "e", "x", "t">>
ManifestName ==
    <<"e", "d", "i", "t", "e", "d", "b", "o", "o", "k", "_", "l", "i", "s", "t">> \o TxtExt

Books == {BookA, BookB}

\* every name that can appear in the input folder
Names == Books \cup {ScriptName, OutputFolderName, ManifestName}

\* filename.endswith(".txt")
EndsWithTxt(name) ==
    /\ Len(name) >= Len(TxtExt)
    /\ SubSeq(name, Len(name) - Len(TxtExt) + 1, Len(name)) = TxtExt

\* output_filename = "edited_" + filename
OutputName(name) == EditedPrefix \o name

\* every name that can appear in the output folder
OutputNames == {OutputName(n) : n \in Names}

\* os.listdir(input_folder): the regular files and the output folder
ListDir(files, folderExists) ==
    files \cup (IF folderExists THEN {OutputFolderName} ELSE {})

Range(s) == {s[i] : i \in 1..Len(s)}

\* lines 111-112: f.write(file + "\n") for each file of processed_files
RECURSIVE ManifestText(_)
ManifestText(names) ==
    IF names = <<>> THEN <<>>
    ELSE Head(names) \o <<"\n">> \o ManifestText(Tail(names))

(***************************************************************************)
(* The tokenizer: nlp(text), flattened to the token texts.  The pipeline   *)
(* is the stanza library, which is not part of the source; the model takes *)
(* the Tokenizer Adapter contract of the specification (section 4.1 and    *)
(* the definition of Token): the tokens are substrings of the text, in     *)
(* order, the spacing between them is discarded, and the same text always  *)
(* gives the same tokens.  nlp(s) is the set of token sequences a          *)
(* tokenizer under that contract can return for s.                         *)
(***************************************************************************)
RECURSIVE nlp(_)
nlp(s) ==
    IF s = <<>> THEN {<<>>}
    ELSE (IF IsSpace(Head(s)) THEN nlp(Tail(s)) ELSE {})
         \cup UNION {{<<SubSeq(s, 1, k)>> \o r : r \in nlp(SubSeq(s, k + 1, Len(s)))} :
                        k \in 1..Len(s)}

(***************************************************************************)
(* clean_persian_text                                                      *)
(***************************************************************************)
\* ' '.join(tokens)
RECURSIVE Join(_)
Join(ts) ==
    IF ts = <<>> THEN <<>>
    ELSE IF Len(ts) = 1 THEN Head(ts)
    ELSE Head(ts) \o <<Space>> \o Join(Tail(ts))

RECURSIVE SubFirstRun(_, _)
SubFirstRun(s, inRun) ==
    IF s = <<>> THEN <<>>
    ELSE IF Head(s) \in {Tatweel, Hyphen, Underscore}
         THEN SubFirstRun(Tail(s), TRUE)
         ELSE IF inRun THEN s ELSE <<Head(s)>> \o SubFirstRun(Tail(s), FALSE)

\* re.sub with count=1: only the first run is deleted.
RemoveSpecialFirstOnly(s) == SubFirstRun(s, FALSE)

\* the pattern without the underscore
RemoveSpecialNoUnderscore(s) == SelectSeq(s, LAMBDA c : c \notin {Tatweel, Hyphen})

RECURSIVE SubRunsBySpace(_, _)
SubRunsBySpace(s, inRun) ==
    IF s = <<>> THEN <<>>
    ELSE IF Head(s) \in {Tatweel, Hyphen, Underscore}
         THEN (IF inRun THEN <<>> ELSE <<Space>>) \o SubRunsBySpace(Tail(s), TRUE)
         ELSE <<Head(s)>> \o SubRunsBySpace(Tail(s), FALSE)

\* each run replaced by a space instead of the empty string
RemoveSpecialBySpace(s) == SubRunsBySpace(s, FALSE)

\* re.sub(r'[ـ\-_]+', '', tokenized_text)
RemoveSpecial(s) == SelectSeq(s, LAMBDA c : c \notin {Tatweel, Hyphen, Underscore})

\* re.sub(r'[^\w\s\.\،:]', '', text_no_special)
RemovePunct(s) ==
    SelectSeq(s, LAMBDA c : IsWord(c) \/ IsSpace(c) \/ c \in {Period, PersianComma, Colon})

RECURSIVE CollapseRuns(_, _)
CollapseRuns(s, inRun) ==
    IF s = <<>> THEN <<>>
    ELSE IF IsSpace(Head(s))
         THEN (IF inRun THEN <<>> ELSE <<Space>>) \o CollapseRuns(Tail(s), TRUE)
         ELSE <<Head(s)>> \o CollapseRuns(Tail(s), FALSE)

\* re.sub(r'\s+', ' ', cleaned_text)
CollapseSpaces(s) == CollapseRuns(s, FALSE)

RECURSIVE LStrip(_)
LStrip(s) == IF s # <<>> /\ IsSpace(Head(s)) THEN LStrip(Tail(s)) ELSE s

RECURSIVE RStrip(_)
RStrip(s) ==
    IF s # <<>> /\ IsSpace(Last(s)) THEN RStrip(SubSeq(s, 1, Len(s) - 1)) ELSE s

\* .lstrip() in place of .strip()
StripLeftOnly(s) == LStrip(s)

\* .strip()
Strip(s) == RStrip(LStrip(s))

\* lines 26-36: the Normalizer, from the token texts to the cleaned text
clean_tokens(ts) == Strip(CollapseSpaces(RemovePunct(RemoveSpecial(Join(ts)))))

(***************************************************************************)
(* SpecClean: clean a text, then clean the result again                    *)
(***************************************************************************)
Texts == UNION {[1..n -> Alphabet] : n \in 0..MaxTextLen}

\* main() has not run: no output folder, no output, no manifest
BatchIdle ==
    /\ outDirExists = FALSE
    /\ outputs = [o \in OutputNames |-> "absent"]
    /\ manifest = <<>>
    /\ processed_files = <<>>
    /\ todo = {}
    /\ filename = <<>>
    /\ pc = "idle"
    /\ report = [n \in Names |-> "none"]
    /\ summary = "none"
    /\ written = <<>>
    /\ runs = 0

InitClean ==
    /\ text \in Texts
    /\ tokens = <<>>
    /\ cleaned = <<>>
    /\ retokens = <<>>
    /\ recleaned = <<>>
    /\ cphase = "start"
    /\ srcDir = {ScriptName}
    /\ BatchIdle

\* lines 12-36, cleaned_text = clean_persian_text(original_text): the text is
\* tokenized and the token texts are normalized
CleanText ==
    /\ cphase = "start"
    /\ \E ts \in nlp(text) :
          /\ tokens' = ts
          /\ cleaned' = clean_tokens(ts)
    /\ cphase' = "cleaned"
    /\ UNCHANGED <<text, retokens, recleaned>>
    /\ UNCHANGED batchVars

\* lines 12-36, the cleaner applied to its own output by the same pipeline:
\* a deterministic tokenizer returns the tokens of the first pass when it is
\* given the same text again
CleanAgain ==
    /\ cphase = "cleaned"
    /\ \E ts \in nlp(cleaned) :
          /\ cleaned = text => ts = tokens
          /\ retokens' = ts
          /\ recleaned' = clean_tokens(ts)
    /\ cphase' = "recleaned"
    /\ UNCHANGED <<text, tokens, cleaned>>
    /\ UNCHANGED batchVars

NextClean == CleanText \/ CleanAgain

SpecClean == InitClean /\ [][NextClean]_vars

(***************************************************************************)
(* Spec: consecutive runs of main()                                        *)
(***************************************************************************)
CleanIdle ==
    /\ text = <<>>
    /\ tokens = <<>>
    /\ cleaned = <<>>
    /\ retokens = <<>>
    /\ recleaned = <<>>
    /\ cphase = "off"

\* the script's folder before the first run: the script, and any of the books
Init ==
    /\ CleanIdle
    /\ \E bs \in SUBSET Books : srcDir = {ScriptName} \cup bs
    /\ BatchIdle

\* lines 79-93: create the output folder, reset processed_files, list the
\* input folder
MainStart ==
    /\ pc \in {"idle", "done", "aborted"}
    /\ runs < MaxRuns
    /\ runs' = runs + 1
    /\ outDirExists' = TRUE
    /\ processed_files' = <<>>
    /\ todo' = ListDir(srcDir, TRUE)
    /\ filename' = <<>>
    /\ report' = [n \in Names |-> "none"]
    /\ summary' = "none"
    /\ written' = <<>>
    /\ pc' = "loop"
    /\ UNCHANGED <<srcDir, outputs, manifest>>
    /\ UNCHANGED cleanVars

\* lines 85-93: os.makedirs (line 86) or os.listdir (line 93) raises; nothing
\* catches it, so main ends before the loop.  os.makedirs is called only
\* while the folder does not exist, and leaves it missing when it raises.
MainStartError ==
    /\ pc \in {"idle", "done", "aborted"}
    /\ runs < MaxRuns
    /\ runs' = runs + 1
    /\ \/ ~outDirExists /\ outDirExists' = FALSE
       \/ outDirExists' = TRUE
    /\ processed_files' = <<>>
    /\ todo' = {}
    /\ filename' = <<>>
    /\ report' = [n \in Names |-> "none"]
    /\ summary' = "none"
    /\ written' = <<>>
    /\ pc' = "aborted"
    /\ UNCHANGED <<srcDir, outputs, manifest>>
    /\ UNCHANGED cleanVars

\* lines 93-94: an entry that does not end with ".txt" is passed over
LoopSkip ==
    /\ pc = "loop"
    /\ \E f \in todo :
          /\ ~EndsWithTxt(f)
          /\ filename' = f
          /\ todo' = todo \ {f}
    /\ UNCHANGED <<srcDir, outDirExists, outputs, manifest, processed_files,
                   pc, report, summary, written, runs>>
    /\ UNCHANGED cleanVars

\* lines 57-62: reading fails; process_file prints and returns False, and
\* main's "if success" is not taken
ProcessFileReadError ==
    /\ pc = "loop"
    /\ \E f \in todo :
          /\ EndsWithTxt(f)
          /\ filename' = f
          /\ todo' = todo \ {f}
          /\ report' = [report EXCEPT ![f] = "read_error"]
    /\ UNCHANGED <<srcDir, outDirExists, outputs, manifest, processed_files,
                   pc, summary, written, runs>>
    /\ UNCHANGED cleanVars

\* lines 57-61: reading fails and the print of line 61, inside the except
\* clause, raises as well; nothing catches it, so main ends with the
\* exception and nothing is reported about the file.
ProcessFileReadErrorPrintError ==
    /\ pc = "loop"
    /\ \E f \in todo :
          /\ EndsWithTxt(f)
          /\ filename' = f
          /\ todo' = todo \ {f}
    /\ pc' = "aborted"
    /\ UNCHANGED <<srcDir, outDirExists, outputs, manifest, processed_files,
                   report, summary, written, runs>>
    /\ UNCHANGED cleanVars

\* the write failure is caught and process_file still returns True
ProcessFileWriteErrorSwallowed ==
    /\ pc = "loop"
    /\ \E f \in todo :
          /\ EndsWithTxt(f)
          /\ filename' = f
          /\ todo' = todo \ {f}
          /\ report' = [report EXCEPT ![f] = "write_error"]
          /\ \/ UNCHANGED outputs
             \/ outputs' = [outputs EXCEPT ![OutputName(f)] = "partial"]
    /\ pc' = "success"
    /\ UNCHANGED <<srcDir, outDirExists, manifest, processed_files,
                   summary, written, runs>>
    /\ UNCHANGED cleanVars

\* lines 68-69: open(output_path, "w") or f.write raises; nothing catches it
\* in process_file or in main, so main ends with the exception.  The output
\* file is untouched when open fails and truncated when the write fails.
ProcessFileWriteError ==
    /\ pc = "loop"
    /\ \E f \in todo :
          /\ EndsWithTxt(f)
          /\ filename' = f
          /\ todo' = todo \ {f}
          /\ report' = [report EXCEPT ![f] = "write_error"]
          /\ \/ UNCHANGED outputs
             \/ outputs' = [outputs EXCEPT ![OutputName(f)] = "partial"]
    /\ pc' = "aborted"
    /\ UNCHANGED <<srcDir, outDirExists, manifest, processed_files,
                   summary, written, runs>>
    /\ UNCHANGED cleanVars

\* lines 68-73: the output is written and closed, then a print of line 71
\* or of show_differences (line 53, called at line 72) raises, as when
\* stdout cannot encode the text; nothing catches it, so main ends with the
\* exception, the source kept and not recorded.  The file is reported as
\* saved when line 71 printed and the failure came later.
ProcessFileReportError ==
    /\ pc = "loop"
    /\ \E f \in todo :
          /\ EndsWithTxt(f)
          /\ filename' = f
          /\ todo' = todo \ {f}
          /\ outputs' = [outputs EXCEPT ![OutputName(f)] = "complete"]
          /\ written' = Append(written, f)
          /\ \/ report' = [report EXCEPT ![f] = "saved"]
             \/ UNCHANGED report
    /\ pc' = "aborted"
    /\ UNCHANGED <<srcDir, outDirExists, manifest, processed_files,
                   summary, runs>>
    /\ UNCHANGED cleanVars

\* lines 56-74 without a failure: the output is written and closed, the
\* report is printed, process_file returns True
ProcessFileOK ==
    /\ pc = "loop"
    /\ \E f \in todo :
          /\ EndsWithTxt(f)
          /\ filename' = f
          /\ todo' = todo \ {f}
          /\ outputs' = [outputs EXCEPT ![OutputName(f)] = "complete"]
          /\ written' = Append(written, f)
          /\ report' = [report EXCEPT ![f] = "saved"]
    /\ pc' = "success"
    /\ UNCHANGED <<srcDir, outDirExists, manifest, processed_files,
                   summary, runs>>
    /\ UNCHANGED cleanVars

\* lines 99-104: the name is recorded and the source is removed
RecordAndRemove ==
    /\ pc = "success"
    /\ processed_files' = Append(processed_files, filename)
    /\ srcDir' = srcDir \ {filename}
    /\ manifest' = IF filename = ManifestName THEN <<>> ELSE manifest
    /\ report' = [report EXCEPT ![filename] = "deleted"]
    /\ pc' = "loop"
    /\ UNCHANGED <<outDirExists, outputs, todo, filename, summary, written, runs>>
    /\ UNCHANGED cleanVars

\* lines 99-106: the name is recorded and the source is removed, then the
\* print of line 104, still inside the try, raises.  The except clause takes
\* it for a failed deletion: either line 106 prints the error and the loop
\* goes on, or that print raises too and main ends with the exception.
RecordAndRemovePrintError ==
    /\ pc = "success"
    /\ processed_files' = Append(processed_files, filename)
    /\ srcDir' = srcDir \ {filename}
    /\ manifest' = IF filename = ManifestName THEN <<>> ELSE manifest
    /\ \/ /\ report' = [report EXCEPT ![filename] = "delete_error"]
          /\ pc' = "loop"
       \/ /\ UNCHANGED report
          /\ pc' = "aborted"
    /\ UNCHANGED <<outDirExists, outputs, todo, filename, summary, written, runs>>
    /\ UNCHANGED cleanVars

\* lines 99-106: the name is recorded, os.remove raises, and the print of
\* line 106, inside the except clause, raises as well; nothing catches it,
\* so main ends with the exception.
RecordAndRemoveErrorPrintError ==
    /\ pc = "success"
    /\ processed_files' = Append(processed_files, filename)
    /\ pc' = "aborted"
    /\ UNCHANGED <<srcDir, outDirExists, outputs, manifest, todo, filename,
                   report, summary, written, runs>>
    /\ UNCHANGED cleanVars

\* lines 99-106: the name is recorded, os.remove raises, the exception is
\* caught and printed
RecordAndRemoveError ==
    /\ pc = "success"
    /\ processed_files' = Append(processed_files, filename)
    /\ report' = [report EXCEPT ![filename] = "delete_error"]
    /\ pc' = "loop"
    /\ UNCHANGED <<srcDir, outDirExists, outputs, manifest, todo, filename,
                   summary, written, runs>>
    /\ UNCHANGED cleanVars

\* lines 109-113: the loop is over and processed_files is not empty
SaveList ==
    /\ pc = "loop"
    /\ todo = {}
    /\ processed_files # <<>>
    /\ manifest' = ManifestText(processed_files)
    /\ srcDir' = srcDir \cup {ManifestName}
    /\ summary' = "saved"
    /\ pc' = "done"
    /\ UNCHANGED <<outDirExists, outputs, processed_files, todo, filename,
                   report, written, runs>>
    /\ UNCHANGED cleanVars

\* lines 110-112: open(processed_list_file, "w") or the write raises; nothing
\* catches it, so main ends with the exception and line 113 is not printed.
\* The manifest file is untouched when open fails.  When the write fails the
\* file has been truncated by open and holds a strict prefix of the text that
\* was to be written: nothing, the first names, or the first names followed
\* by a name cut short or left without its newline.
SaveListError ==
    /\ pc = "loop"
    /\ todo = {}
    /\ processed_files # <<>>
    /\ \/ UNCHANGED <<manifest, srcDir>>
       \/ /\ \E k \in 0..(Len(ManifestText(processed_files)) - 1) :
                manifest' = SubSeq(ManifestText(processed_files), 1, k)
          /\ srcDir' = srcDir \cup {ManifestName}
    /\ pc' = "aborted"
    /\ UNCHANGED <<outDirExists, outputs, processed_files, todo, filename,
                   report, summary, written, runs>>
    /\ UNCHANGED cleanVars

\* lines 109-113: the manifest is written and closed, then the print of
\* line 113 raises; nothing catches it, so main ends with the exception.
SaveListPrintError ==
    /\ pc = "loop"
    /\ todo = {}
    /\ processed_files # <<>>
    /\ manifest' = ManifestText(processed_files)
    /\ srcDir' = srcDir \cup {ManifestName}
    /\ pc' = "aborted"
    /\ UNCHANGED <<outDirExists, outputs, processed_files, todo, filename,
                   report, summary, written, runs>>
    /\ UNCHANGED cleanVars

\* lines 114-115: the print of line 115 raises; main ends with the exception
NoFilesProcessedPrintError ==
    /\ pc = "loop"
    /\ todo = {}
    /\ processed_files = <<>>
    /\ pc' = "aborted"
    /\ UNCHANGED <<srcDir, outDirExists, outputs, manifest, processed_files,
                   todo, filename, report, summary, written, runs>>
    /\ UNCHANGED cleanVars

\* lines 114-115: the loop is over and processed_files is empty
NoFilesProcessed ==
    /\ pc = "loop"
    /\ todo = {}
    /\ processed_files = <<>>
    /\ summary' = "no_files"
    /\ pc' = "done"
    /\ UNCHANGED <<srcDir, outDirExists, outputs, manifest, processed_files,
                   todo, filename, report, written, runs>>
    /\ UNCHANGED cleanVars

Next ==
    \/ MainStart
    \/ MainStartError
    \/ LoopSkip
    \/ ProcessFileReadError
    \/ ProcessFileReadErrorPrintError
    \/ ProcessFileWriteError
    \/ ProcessFileReportError
    \/ ProcessFileOK
    \/ RecordAndRemove
    \/ RecordAndRemovePrintError
    \/ RecordAndRemoveError
    \/ RecordAndRemoveErrorPrintError
    \/ SaveList
    \/ SaveListError
    \/ SaveListPrintError
    \/ NoFilesProcessed
    \/ NoFilesProcessedPrintError

Spec == Init /\ [][Next]_vars

(***************************************************************************)
(* Properties of the batch driver (checked under Spec)                     *)
(***************************************************************************)
\* the lines of a manifest text: the runs of characters between newlines
RECURSIVE ManifestLines(_, _)
ManifestLines(m, cur) ==
    IF m = <<>> THEN (IF cur = <<>> THEN <<>> ELSE <<cur>>)
    ELSE IF Head(m) = "\n"
         THEN <<cur>> \o ManifestLines(Tail(m), <<>>)
         ELSE ManifestLines(Tail(m), Append(cur, Head(m)))

Ended == pc \in {"done", "aborted"}

\* C1 - write-before-delete: a source whose output could not be written is
\* still in the input folder, and every step that removes a source from the
\* input folder finds its output completely written during this run.
C1_WriteBeforeDelete ==
    /\ [](\A n \in Names : report[n] = "write_error" => n \in srcDir)
    /\ [][\A n \in srcDir \ srcDir' :
             /\ outputs[OutputName(n)] = "complete"
             /\ n \in Range(written)]_vars

\* one source was written and then deleted, and the write of another failed
C1_Witness ==
    \E n, m \in Names :
        /\ report[n] = "write_error" /\ n \in srcDir
        /\ report[m] = "deleted" /\ m \notin srcDir
        /\ outputs[OutputName(m)] = "complete"

\* C2 - per-file errors never abort the batch: whenever main has ended, no
\* ".txt" entry of the listing was left unvisited and the names recorded in
\* processed_files have been saved to the manifest.
C2_BatchNeverAborted ==
    Ended =>
        /\ \A f \in todo : ~EndsWithTxt(f)
        /\ processed_files # <<>> =>
               ManifestName \in srcDir /\ manifest = ManifestText(processed_files)

\* C3 - a failed deletion is not fatal: whenever main leaves the removal
\* step with the source still in the input folder (os.remove raised), the
\* name has been recorded in processed_files and main is back in the loop
\* with the remaining entries untouched.
C3_DeleteErrorNotFatal ==
    [][(pc = "success" /\ pc' # "success" /\ filename \in srcDir')
          => /\ filename \in Range(processed_files')
             /\ pc' = "loop"
             /\ todo' = todo]_vars

\* C4 - an unreadable source is skipped without side effects: a source
\* reported as unreadable stays in the input folder, has no output written
\* and is in neither processed_files nor the saved manifest; and whenever
\* process_file ends without having written (the read raised: the file is
\* reported as unreadable, or not reported at all), no file has changed and
\* main is back in the loop.
C4_ReadErrorSkipped ==
    /\ [](\A n \in Names : report[n] = "read_error" =>
             /\ n \in srcDir
             /\ n \notin Range(written)
             /\ n \notin Range(processed_files)
             /\ summary = "saved" => n \notin Range(ManifestLines(manifest, <<>>)))
    /\ [][\A f \in todo \ todo' :
             (/\ pc = "loop"
              /\ EndsWithTxt(f)
              /\ written' = written
              /\ report'[f] \in {"none", "read_error"})
                 => /\ pc' = "loop"
                    /\ outputs' = outputs
                    /\ srcDir' = srcDir
                    /\ processed_files' = processed_files]_vars

\* C5 - manifest contents: when a run has ended and an output was written
\* during it, the manifest file exists and holds exactly the names whose
\* output was written, in order; when no output was written, the manifest
\* has not been saved.
C5_ManifestContents ==
    Ended =>
        IF written # <<>>
        THEN ManifestName \in srcDir /\ manifest = ManifestText(written)
        ELSE summary # "saved"

\* C10 - only source documents are consumed: the manifest file is never
\* handed to process_file, has no cleaned copy in the output folder, is not
\* named in processed_files or in a manifest, and no output file is among
\* the entries the loop iterates.
C10_OnlySourcesConsumed ==
    /\ report[ManifestName] = "none"
    /\ outputs[OutputName(ManifestName)] = "absent"
    /\ ManifestName \notin (Range(ManifestLines(manifest, <<>>)) \cup Range(processed_files))
    /\ todo \cap OutputNames = {}

(***************************************************************************)
(* Properties of the cleaner (checked under SpecClean)                     *)
(***************************************************************************)
Chars(s) == {s[i] : i \in 1..Len(s)}

\* the characters the Normalizer is said to keep
Kept(c) ==
    \/ IsWord(c) /\ c \notin {Tatweel, Underscore}
    \/ c \in {Period, PersianComma, Colon}

\* C6 - character-set invariant: the cleaned text holds no tatweel, no
\* hyphen and no underscore, and each of its characters is a word character,
\* a space, a period, a Persian comma or a colon.
C6_CharacterSet ==
    cphase \in {"cleaned", "recleaned"} =>
        \A i \in 1..Len(cleaned) :
            /\ cleaned[i] \notin {Tatweel, Hyphen, Underscore}
            /\ \/ IsWord(cleaned[i])
               \/ cleaned[i] = Space
               \/ cleaned[i] \in {Period, PersianComma, Colon}

\* a text holding an underscore and a tatweel next to a letter was cleaned
\* to a non-empty text
C6_Witness ==
    /\ cphase = "cleaned"
    /\ {Underscore, Tatweel, LatinA} \subseteq Chars(text)
    /\ cleaned # <<>>

\* C7 - whitespace invariant: the cleaned text has no leading or trailing
\* whitespace, no two consecutive spaces, and no whitespace character other
\* than the ASCII space.
C7_Whitespace ==
    cphase \in {"cleaned", "recleaned"} =>
        /\ cleaned # <<>> => ~IsSpace(Head(cleaned)) /\ ~IsSpace(Last(cleaned))
        /\ \A i \in 1..(Len(cleaned) - 1) :
               ~(cleaned[i] = Space /\ cleaned[i + 1] = Space)
        /\ \A i \in 1..Len(cleaned) : IsSpace(cleaned[i]) => cleaned[i] = Space

\* a two-line text became one line, its newline replaced by a single space
C7_Witness ==
    /\ cphase = "cleaned"
    /\ text = <<LatinA, Newline, PersianBe>>
    /\ cleaned = <<LatinA, Space, PersianBe>>

\* C8 as stated - idempotence for every text and every deterministic
\* tokenizer: cleaning the cleaned text returns it unchanged.
C8_Idempotent == cphase = "recleaned" => recleaned = cleaned

\* C8 amended - cleaning the cleaned text returns it unchanged whenever the
\* tokenizer segments the cleaned text only at its spaces, that is, whenever
\* the single-space join of the second pass's tokens is the cleaned text.
C8_IdempotentAtSpaces ==
    (cphase = "recleaned" /\ Join(retokens) = cleaned) => recleaned = cleaned

\* a text that the first pass changed, holding a mark and a space after
\* cleaning, was cleaned again from two tokens split at its space
C8_Witness ==
    /\ cphase = "recleaned"
    /\ cleaned # text
    /\ Space \in Chars(cleaned)
    /\ Period \in Chars(cleaned)
    /\ Len(retokens) = 2
    /\ Join(retokens) = cleaned

\* C9 - deletion inserts no space and loses nothing else: a token without
\* whitespace is cleaned to a text without spaces, and for every token
\* sequence the cleaned text without its spaces is the concatenation, in
\* order, of the kept characters of the tokens.
C9_KeptCharacters ==
    cphase \in {"cleaned", "recleaned"} =>
        /\ SelectSeq(cleaned, LAMBDA c : c # Space) = SelectSeq(Concat(tokens), Kept)
        /\ (Len(tokens) = 1 /\ \A c \in Chars(tokens[1]) : ~IsSpace(c))
               => cleaned = SelectSeq(tokens[1], Kept)

\* a hyphen between two letters of one token was deleted and the letters
\* became adjacent
C9_Witness ==
    /\ cphase = "cleaned"
    /\ tokens = << <<LatinA, Hyphen, PersianBe>> >>
    /\ cleaned = <<LatinA, PersianBe>>

====
